---------------------------- MODULE Spec2Model ----------------------------
(***************************************************************************)
(* A model of BarScreenSaver (src/main.py): the audio sampler thread and   *)
(* the smoothing tick of the visualizer, the Spotify polling thread with   *)
(* its token refresh, and the advertisement / countdown state machine of   *)
(* Visualizer.update_ui; the OAuth listener, the start and stop of the two *)
(* threads, and the two manual mute keys.                                  *)
(*                                                                         *)
(* Floating point values (bar amplitudes, the smoothing factor) are        *)
(* modelled as a binary floating point format with MantissaBits bits of    *)
(* precision, round-to-nearest-even after every operation, and a smallest  *)
(* quantum of 2^-FracBits: the number n stands for n / 2^FracBits.  The    *)
(* program computes in IEEE-754 binary64, the same format with 53 bits.    *)
(*                                                                         *)
(* Wall-clock time is counted in ticks of 1/TicksPerSecond seconds.        *)
(***************************************************************************)
EXTENDS Integers, Sequences, FiniteSets, TLC

\* ------------------------------------------------------------------ bounds
\* precision of the modelled floating point format (binary64 has 53)
MantissaBits == 3
\* the smallest positive value of the format is 2^-FracBits
FracBits == 5
\* largest configured bar count
MaxBars == 3
\* the model stops a producer when this many items are pending in its queue
MaxPending == 2

\* wall-clock resolution of the model, in ticks per second
TicksPerSecond == 2
\* the clock readings taken lie within MaxOffset ticks of a multiple of the
\* countdown, up to MaxEpochs countdowns after the start
MaxOffset == 1
MaxEpochs == 1
\* polls of the currently-playing endpoint made in one run of the model
MaxPolls == 4
\* audio sessions found by one iteration of the sampler
MaxSessions == 2

\* ------------------------------------------------------ program constants
\* queue.Queue() is built with the default maxsize 0: no capacity limit
maxsize == 0

None == "None"

Max(a, b) == IF a >= b THEN a ELSE b
Min(a, b) == IF a <= b THEN a ELSE b
Abs(a) == IF a >= 0 THEN a ELSE 0 - a

RECURSIVE Pow2(_)
Pow2(k) == IF k <= 0 THEN 1 ELSE 2 * Pow2(k - 1)

\* 1.0
One == Pow2(FracBits)

\* number of binary digits of n >= 0
RECURSIVE BitLen(_)
BitLen(n) == IF n <= 0 THEN 0 ELSE 1 + BitLen(n \div 2)

\* n rounded to the nearest multiple of q, ties to the even multiple
RoundNearestEven(n, q) ==
    LET k == n \div q
        r == n - k * q
    IN  IF 2 * r < q THEN k * q
        ELSE IF 2 * r > q THEN (k + 1) * q
        ELSE IF k % 2 = 0 THEN k * q ELSE (k + 1) * q

\* n >= 0 rounded to MantissaBits significant bits, the quantum at least minq
FloatRound(n, minq) ==
    RoundNearestEven(n, Max(minq, Pow2(BitLen(n) - MantissaBits)))

\* the values of the format in [0, 1]
Floats == {FloatRound(n, 1) : n \in 0..One}

\* x * y, x + y, x - y (x >= y) in the format
FMul(x, y) == FloatRound(x * y, One) \div One
FAdd(x, y) == FloatRound(x + y, 1)
FSub(x, y) == FloatRound(x - y, 1)

\* np.zeros(n)
Zeros(n) == [i \in 1..n |-> 0]

\* the vectors of length n over the values S
Vectors(n, S) == [1..n -> S]


\* ------------------------------------------------------------------- state
VARIABLES
    \* module globals read from config.json
    BAR_COUNT, SMOOTHING,
    \* audio_q and the Visualizer's smoothing state
    audio_queue, bars, target,
    \* whether update_visuals is scheduled again (self.after)
    visuals_scheduled

visualVars == <<BAR_COUNT, SMOOTHING, audio_queue, bars, target, visuals_scheduled>>

VARIABLES
    \* AudioCapture: where run() stands, and self.running
    audio_pc, audio_running,
    \* CoInitialize and CoUninitialize calls of the sampler thread
    com_inits, com_uninits,
    \* history: iterations of the sampling loop completed since stop(), and
    \* the sessions whose level could not be read in the latest iteration
    ticks_after_stop, read_failures

samplerVars == <<audio_pc, audio_running, com_inits, com_uninits,
                 ticks_after_stop, read_failures>>

VARIABLES
    \* TOKEN_FILE on disk, and the global auth_code with its listener
    token_file, auth_code, auth_server,
    \* SpotifyMediaCapture: where run() stands, and its fields
    media_pc, tokens, access_token, refresh_token,
    \* media_q
    media_queue,
    \* history of the polling loop: polls made, the answer to the latest
    \* poll (e.response in the handler), refresh attempts made since that poll
    polls, last_poll, refreshes,
    \* history: the answer of the token endpoint to the latest refresh
    last_refresh,
    \* history: refresh requests sent to the token endpoint and not answered
    refreshes_in_flight,
    \* SpotifyMediaCapture.running
    media_running

mediaVars == <<token_file, auth_code, auth_server, media_pc, tokens,
               access_token, refresh_token, media_queue, polls, last_poll,
               refreshes, last_refresh,
               refreshes_in_flight, media_running>>

VARIABLES
    \* time.time(), in ticks
    now,
    \* the Visualizer's media and advertisement / timer fields
    current_title, current_artist, is_ad_playing, timer_running,
    timer_end_time, timer_last_state, timer_label,
    \* whether the canvas windows of the three indicators exist
    ad_indicator_window, timer_label_window, muted_indicator_window,
    \* the mute state mute_all_audio last set on the audio sessions
    audio_muted,
    \* history: is_ad of every signal update_ui consumed; the automatic
    \* mute_all_audio calls of update_ui, each with the number of the signal
    \* that caused it; the clock reading at the latest automatic unmute
    consumed, mute_calls, ad_ended_at,
    \* history: the number of signals the latest update_ui took off media_q
    drained,
    \* history: the latest force_mute / force_unmute, with is_ad_playing and
    \* the number of signals consumed when it was issued
    override

uiVars == <<now, current_title, current_artist, is_ad_playing, timer_running,
            timer_end_time, timer_last_state, timer_label,
            ad_indicator_window, timer_label_window, muted_indicator_window,
            audio_muted, consumed, mute_calls, ad_ended_at, drained,
            override>>

vars == <<visualVars, samplerVars, mediaVars, uiVars>>

\* CONFIG.get("smoothing", 0.6): the default in the format
DefaultSmoothing == FloatRound((6 * One) \div 10, 1)

\* the smoothing factors the model configures: 0.5 and the default
SmoothingFactors == {One \div 2, DefaultSmoothing}

\* the peak levels GetPeakValue reads and the coefficients np.random.rand draws
PeakLevels == {0, One}
RandCoeffs == {One \div 2}

\* --------------------------------------------------------- the two queues
\* queue.Queue.put blocks only when maxsize > 0 and the queue is full
PutBlocks(q) == maxsize > 0 /\ Len(q) >= maxsize

\* the model explores a queue up to MaxPending items
CanPut(q) == ~PutBlocks(q) /\ Len(q) < MaxPending

\* ------------------------------------------------------------ AudioCapture
\* max(levels)
RECURSIVE MaxOf(_)
MaxOf(s) == IF Len(s) = 1 THEN s[1] ELSE Max(s[1], MaxOf(Tail(s)))

\* the frame one tick of AudioCapture.run emits: rand(BAR_COUNT) * max_level
\* when a level was read, zeros otherwise
Spectrum(levels, coeffs, n) ==
    IF levels # <<>>
    THEN [i \in 1..n |-> FMul(coeffs[i], MaxOf(levels))]
    ELSE Zeros(n)

\* run() up to the loop: CoInitialize, which may raise before anything is
\* held
AudioCapture_start ==
    /\ audio_pc = "start"
    /\ \E ok \in BOOLEAN :
          IF ok THEN com_inits' = com_inits + 1 /\ audio_pc' = "test"
          ELSE com_inits' = com_inits /\ audio_pc' = "failed"
    /\ UNCHANGED <<audio_running, com_uninits, ticks_after_stop, read_failures>>
    /\ UNCHANGED <<visualVars, mediaVars, uiVars>>

\* a finally block that does not call CoUninitialize
AudioCapture_finally_NoRelease ==
    /\ com_uninits' = com_uninits
    /\ audio_pc' = "exited"

\* the finally block of run(): CoUninitialize
AudioCapture_finally ==
    /\ com_uninits' = com_uninits + 1
    /\ audio_pc' = "exited"

\* while self.running: the body is entered, or the loop ends and the
\* finally block runs
AudioCapture_test ==
    /\ audio_pc = "test"
    /\ IF audio_running
       THEN audio_pc' = "body" /\ UNCHANGED com_uninits
       ELSE AudioCapture_finally
    /\ UNCHANGED <<audio_running, com_inits, ticks_after_stop, read_failures>>
    /\ UNCHANGED <<visualVars, mediaVars, uiVars>>

\* an iteration is over: back to the loop test after time.sleep
AudioCapture_sleep ==
    /\ audio_pc' = "test"
    /\ ticks_after_stop' = IF audio_running THEN ticks_after_stop
                           ELSE ticks_after_stop + 1
    /\ UNCHANGED <<audio_running, com_inits, com_uninits>>

\* an iteration whose body raises: an Exception is caught and logged
\* inside the loop, anything else leaves the loop through the finally block
AudioCapture_run_raises ==
    /\ audio_pc = "body"
    /\ \E caught \in BOOLEAN :
          IF caught THEN AudioCapture_sleep
          ELSE /\ AudioCapture_finally
               /\ UNCHANGED <<audio_running, com_inits, ticks_after_stop>>
    /\ UNCHANGED read_failures
    /\ UNCHANGED <<visualVars, mediaVars, uiVars>>

\* AudioCapture.stop
AudioCapture_stop ==
    /\ audio_running' = FALSE
    /\ UNCHANGED <<audio_pc, com_inits, com_uninits, ticks_after_stop,
                   read_failures>>
    /\ UNCHANGED <<visualVars, mediaVars, uiVars>>

\* a loop over the sessions that ends at the first one that cannot be read
RECURSIVE ReadLevels_StopsAtFailure(_)
ReadLevels_StopsAtFailure(sessions) ==
    IF sessions = <<>> \/ sessions[1] = <<>> THEN <<>>
    ELSE sessions[1] \o ReadLevels_StopsAtFailure(Tail(sessions))

\* the loop over the sessions: GetPeakValue of a session is <<v>>, or <<>>
\* when the read raises, which is logged and skipped; the levels read
RECURSIVE ReadLevels(_)
ReadLevels(sessions) ==
    IF sessions = <<>> THEN <<>>
    ELSE sessions[1] \o ReadLevels(Tail(sessions))

\* one iteration of the loop of AudioCapture.run on the given sessions,
\* with the given draw of np.random.rand
AudioCapture_iteration(sessions, coeffs) ==
    /\ audio_pc = "body"
    /\ BAR_COUNT >= 0
    /\ CanPut(audio_queue)
    /\ AudioCapture_sleep
    /\ read_failures' = Len(sessions) - Len(ReadLevels(sessions))
    /\ audio_queue' =
          Append(audio_queue, Spectrum(ReadLevels(sessions), coeffs, BAR_COUNT))
    /\ UNCHANGED <<BAR_COUNT, SMOOTHING, bars, target, visuals_scheduled>>
    /\ UNCHANGED <<mediaVars, uiVars>>

\* one iteration of the loop of AudioCapture.run: no session, or one whose
\* level is read
AudioCapture_run(levelSet, coeffSet) ==
    \E sessions \in {<<>>} \cup {<< <<v>> >> : v \in levelSet} :
    \E coeffs \in Vectors(BAR_COUNT, coeffSet) :
        AudioCapture_iteration(sessions, coeffs)

\* ---------------------------------------------------- Visualizer smoothing
\* the while loop of update_visuals: every pending frame is dequeued and
\* assigned to target in turn, so the last one stays
LatestFrame(q, t) == IF q # <<>> THEN q[Len(q)] ELSE t

\* numpy broadcasting of two one-dimensional arrays
NpBroadcastable(m, n) == m = n \/ m = 1 \/ n = 1
NpAt(v, i) == IF Len(v) = 1 THEN v[1] ELSE v[i]

\* SMOOTHING * bars[i] + (1 - SMOOTHING) * target[i]
EMA(a, c, t) == FAdd(FMul(a, c), FMul(FSub(One, a), t))

\* SMOOTHING * self.bars + (1 - SMOOTHING) * self.target on arrays
Smooth(a, b, t) ==
    [i \in 1..(IF Len(b) = 1 THEN Len(t) ELSE Len(b)) |->
        EMA(a, NpAt(b, i), NpAt(t, i))]

\* draw_bars divides the width by BAR_COUNT * 1.5 (ZeroDivisionError for
\* 0) and reads self.bars[i] for i in range(BAR_COUNT): IndexError when the
\* array is shorter
DrawBarsRaises(b, n) == n = 0 \/ n > Len(b)

\* update_visuals: an exception (ValueError of the array sum, IndexError of
\* draw_bars) leaves the callback before self.after reschedules it
update_visuals ==
    /\ visuals_scheduled
    /\ LET tgt == LatestFrame(audio_queue, target)
           ok == NpBroadcastable(Len(bars), Len(tgt))
           newbars == IF ok THEN Smooth(SMOOTHING, bars, tgt) ELSE bars
       IN  /\ audio_queue' = <<>>
           /\ target' = tgt
           /\ bars' = newbars
           /\ visuals_scheduled' = (ok /\ ~DrawBarsRaises(newbars, BAR_COUNT))
    /\ UNCHANGED <<BAR_COUNT, SMOOTHING>>
    /\ UNCHANGED <<samplerVars, mediaVars, uiVars>>

\* reload_config (F8): BAR_COUNT is read again and both arrays are rebuilt
\* (np.zeros of a negative size raises, which is caught and leaves them);
\* SMOOTHING is not read again and audio_queue is not touched
reload_config(n) ==
    /\ BAR_COUNT' = n
    /\ bars' = IF n >= 0 THEN Zeros(n) ELSE bars
    /\ target' = IF n >= 0 THEN Zeros(n) ELSE target
    /\ UNCHANGED <<SMOOTHING, audio_queue, visuals_scheduled>>
    /\ UNCHANGED <<samplerVars, mediaVars, uiVars>>

\* ----------------------------------------------------------- token store
\* an optional value: <<>> is Python's None, <<x>> the value x
NoneOpt == <<>>
Some(x) == <<x>>

AccessTokens == {"access1", "access2"}
RefreshTokens == {"refresh1"}
AuthCodes == {"code1"}

TokenSet(a, r) == [access_token |-> a, refresh_token |-> r]

\* load_tokens catching FileNotFoundError only
load_tokens_ParsesAnything ==
    IF token_file.state # "absent" THEN Some(token_file.data) ELSE NoneOpt

\* load_tokens: the parsed file, None when it is absent or not JSON
load_tokens == IF token_file.state = "ok" THEN Some(token_file.data) ELSE NoneOpt

\* save_tokens(data): the file is overwritten
save_tokens(data) == [state |-> "ok", data |-> data]

NoFile == [state |-> "absent", data |-> TokenSet(None, None)]

\* a token file whose text is not JSON (json.JSONDecodeError)
InvalidFile == [state |-> "invalid", data |-> TokenSet(None, None)]

\* -------------------------------------------------------- OAuth listener
\* the requests that reach the listener
AuthRequests ==
    [path : {"/callback", "/favicon.ico"}, code : AuthCodes \cup {None}]

\* do_GET taking the code of a request of any path
do_GET_AnyPath(req) == req.code

\* OAuthHandler.do_GET: the code of a /callback request that carries one,
\* None (404) otherwise
do_GET(req) ==
    IF req.path = "/callback" /\ req.code # None THEN req.code ELSE None

\* the status do_GET answers: send_response(200) with the code captured,
\* send_error(404) otherwise
do_GET_status(req) == IF do_GET(req) # None THEN 200 ELSE 404

\* start_auth_server: handle_request serves one request, then the server
\* is closed
start_auth_server(req) ==
    /\ auth_server = "listening"
    /\ auth_code' = IF do_GET(req) # None THEN do_GET(req) ELSE auth_code
    /\ auth_server' = "closed"
    /\ UNCHANGED <<token_file, media_pc, tokens, access_token, refresh_token,
                   media_queue, polls, last_poll, refreshes, last_refresh,
                   refreshes_in_flight,
                   media_running>>
    /\ UNCHANGED <<visualVars, samplerVars, uiVars>>

\* ------------------------------------------------- SpotifyMediaCapture.run
\* run() up to the wait of initiate_auth_flow: the persisted tokens are
\* used when there are any, the authorization flow is started otherwise
run_start ==
    /\ media_pc = "start"
    /\ IF load_tokens # NoneOpt
       THEN /\ tokens' = load_tokens
            /\ access_token' = load_tokens[1].access_token
            /\ refresh_token' = load_tokens[1].refresh_token
            /\ media_pc' = "poll"
            /\ UNCHANGED auth_server
       ELSE /\ auth_server' = "listening"
            /\ media_pc' = "auth_wait"
            /\ UNCHANGED <<tokens, access_token, refresh_token>>
    /\ UNCHANGED <<token_file, auth_code, media_queue, polls, last_poll,
                   refreshes, last_refresh,
                   refreshes_in_flight, media_running>>
    /\ UNCHANGED <<visualVars, samplerVars, uiVars>>

\* an authorization flow that saves the body of a failed exchange
initiate_auth_flow_SavesErrorBody(ok, a, r) ==
    /\ media_pc = "auth_wait"
    /\ auth_code # None
    /\ IF ok
       THEN /\ token_file' = save_tokens(TokenSet(a, r))
            /\ tokens' = Some(TokenSet(a, r))
            /\ access_token' = a
            /\ refresh_token' = r
            /\ media_pc' = "poll"
       ELSE /\ media_pc' = "died"
            /\ token_file' = save_tokens(TokenSet(None, None))
            /\ UNCHANGED <<tokens, access_token, refresh_token>>
    /\ UNCHANGED <<auth_code, auth_server, media_queue, polls, last_poll,
                   refreshes, last_refresh,
                   refreshes_in_flight, media_running>>
    /\ UNCHANGED <<visualVars, samplerVars, uiVars>>

\* initiate_auth_flow once auth_code is set: get_tokens_from_code, then
\* save_tokens; a non-success response raises out of run()
initiate_auth_flow(ok, a, r) ==
    /\ media_pc = "auth_wait"
    /\ auth_code # None
    /\ IF ok
       THEN /\ token_file' = save_tokens(TokenSet(a, r))
            /\ tokens' = Some(TokenSet(a, r))
            /\ access_token' = a
            /\ refresh_token' = r
            /\ media_pc' = "poll"
       ELSE /\ media_pc' = "died"
            /\ UNCHANGED <<token_file, tokens, access_token, refresh_token>>
    /\ UNCHANGED <<auth_code, auth_server, media_queue, polls, last_poll,
                   refreshes, last_refresh,
                   refreshes_in_flight, media_running>>
    /\ UNCHANGED <<visualVars, samplerVars, uiVars>>

\* what the currently-playing endpoint answers; status 0 stands for a
\* request that raised without a response (connection failure)
NoItem == [type |-> None, name |-> None, artists |-> <<>>]
TrackA == [type |-> "track", name |-> "Song A",
           artists |-> <<"Artist A", "Artist B">>]
TrackNoArtist == [type |-> "track", name |-> "Song C", artists |-> <<>>]
Episode == [type |-> "episode", name |-> "Show", artists |-> <<>>]

PollResponses ==
    [status : {204, 401, 500, 0}, is_playing : {FALSE}, item : {NoItem}]
    \cup [status : {200}, is_playing : {TRUE},
          item : {NoItem, TrackA, TrackNoArtist, Episode}]
    \cup [status : {200}, is_playing : {FALSE}, item : {TrackA}]

\* get_current_playing without its is_playing test
get_current_playing_IgnoresIsPlaying(r) ==
    IF r.status = 0 THEN [kind |-> "exception", title |-> None, artist |-> None]
    ELSE IF r.status = 204 THEN [kind |-> "none", title |-> None, artist |-> None]
    ELSE IF r.status # 200
    THEN [kind |-> "http_error", title |-> None, artist |-> None]
    ELSE IF r.item = NoItem \/ r.item.type # "track" \/ r.item.artists = <<>>
    THEN [kind |-> "none", title |-> None, artist |-> None]
    ELSE [kind |-> "track", title |-> r.item.name,
          artist |-> r.item.artists[1]]

\* get_current_playing: "none" for the three return None, "track" with
\* title and first artist, "http_error" for raise_for_status, "exception"
\* for any other exception
get_current_playing(r) ==
    IF r.status = 0 THEN [kind |-> "exception", title |-> None, artist |-> None]
    ELSE IF r.status = 204 THEN [kind |-> "none", title |-> None, artist |-> None]
    ELSE IF r.status # 200
    THEN [kind |-> "http_error", title |-> None, artist |-> None]
    ELSE IF ~r.is_playing THEN [kind |-> "none", title |-> None, artist |-> None]
    ELSE IF r.item = NoItem \/ r.item.type # "track" \/ r.item.artists = <<>>
    THEN [kind |-> "none", title |-> None, artist |-> None]
    ELSE [kind |-> "track", title |-> r.item.name,
          artist |-> r.item.artists[1]]

Signal(t, a, ad) == [title |-> t, artist |-> a, is_ad |-> ad]

NoTitleSignal == Signal("No Title / AD", "No Playback / AD", TRUE)
\* f"HTTP {e.response.status_code}"
HttpText(status) == IF status = 401 THEN "HTTP 401" ELSE "HTTP 500"
HttpErrorSignal(status) == Signal("Error", HttpText(status), TRUE)
UnknownErrorSignal == Signal("Error", "Unknown Issue", TRUE)
\* the signal of a failed refresh put as a track
TokenErrorSignal_NotAd == Signal("Token Error", "Re-Auth Required", FALSE)
\* the signal put before the loop is left on a failed refresh
TokenErrorSignal == Signal("Token Error", "Re-Auth Required", TRUE)

\* the answer recorded before the first poll
NoPoll == [status |-> 0 - 1, is_playing |-> FALSE, item |-> NoItem]

\* the loop body without its handler of unexpected exceptions: the
\* exception ends run()
AfterPoll_DiesOnException(r) ==
    LET res == get_current_playing(r)
    IN  IF res.kind = "none" THEN "refresh_idle"
        ELSE IF res.kind = "http_error" /\ r.status = 401 THEN "refresh_401"
        ELSE IF res.kind = "exception" THEN "exited"
        ELSE "poll"

\* the loop body with a 401 handled like any other HTTP error
AfterPoll_NoRefreshOn401(r) ==
    IF get_current_playing(r).kind = "none" THEN "refresh_idle" ELSE "poll"

\* where the loop body goes after get_current_playing: the refresh of the
\* "nothing playing" branch, the refresh of the 401 handler, or the end of
\* the iteration
AfterPoll(r) ==
    LET res == get_current_playing(r)
    IN  IF res.kind = "none" THEN "refresh_idle"
        ELSE IF res.kind = "http_error" /\ r.status = 401 THEN "refresh_401"
        ELSE "poll"

\* the signal the loop body puts without a refresh: a track, a non-401 HTTP
\* error, any other exception
PollSignal(r) ==
    LET res == get_current_playing(r)
    IN  IF res.kind = "track" THEN Signal(res.title, res.artist, FALSE)
        ELSE IF res.kind = "http_error" THEN HttpErrorSignal(r.status)
        ELSE UnknownErrorSignal

\* an iteration that sends the refresh request and goes on to the next
\* iteration without waiting for its answer
poll_DoesNotAwaitRefresh(r) ==
    /\ media_pc = "poll"
    /\ media_running
    /\ polls < MaxPolls
    /\ CanPut(media_queue)
    /\ polls' = polls + 1
    /\ last_poll' = r
    /\ refreshes' = 0
    /\ media_pc' = "poll"
    /\ refreshes_in_flight' = IF AfterPoll(r) = "poll" THEN refreshes_in_flight
                              ELSE refreshes_in_flight + 1
    /\ media_queue' = Append(media_queue, PollSignal(r))
    /\ UNCHANGED <<token_file, auth_code, auth_server, tokens, access_token,
                   refresh_token, last_refresh, media_running>>
    /\ UNCHANGED <<visualVars, samplerVars, uiVars>>

\* one iteration of the while loop (entered while self.running) up to its
\* first put or to its refresh request, whose answer the thread waits for
\* inside refresh_access_token
poll(r) ==
    /\ media_pc = "poll"
    /\ media_running
    /\ polls < MaxPolls
    /\ CanPut(media_queue)
    /\ polls' = polls + 1
    /\ last_poll' = r
    /\ refreshes' = 0
    /\ media_pc' = AfterPoll(r)
    /\ refreshes_in_flight' = IF AfterPoll(r) = "poll" THEN refreshes_in_flight
                              ELSE refreshes_in_flight + 1
    /\ media_queue' = IF AfterPoll(r) = "poll"
                      THEN Append(media_queue, PollSignal(r))
                      ELSE media_queue
    /\ UNCHANGED <<token_file, auth_code, auth_server, tokens, access_token,
                   refresh_token, last_refresh, media_running>>
    /\ UNCHANGED <<visualVars, samplerVars, uiVars>>

\* SpotifyMediaCapture.stop
SpotifyMediaCapture_stop ==
    /\ media_running' = FALSE
    /\ UNCHANGED <<token_file, auth_code, auth_server, media_pc, tokens,
                   access_token, refresh_token, media_queue, polls, last_poll,
                   refreshes, last_refresh,
                   refreshes_in_flight>>
    /\ UNCHANGED <<visualVars, samplerVars, uiVars>>

\* while self.running is false at the loop test: run() returns
run_exit ==
    /\ media_pc = "poll"
    /\ ~media_running
    /\ media_pc' = "exited"
    /\ UNCHANGED <<token_file, auth_code, auth_server, tokens, access_token,
                   refresh_token, media_queue, polls, last_poll, refreshes,
                   last_refresh,
                   refreshes_in_flight, media_running>>
    /\ UNCHANGED <<visualVars, samplerVars, uiVars>>

\* what the token endpoint answers to refresh_access_token: a failure
\* (raise_for_status, or no connection), or a JSON body with an access_token
\* and, when the service rotates it, a refresh_token
NewRefreshTokens == {None, "refresh2"}
RefreshResponse(ok, a, r) ==
    IF ok THEN [result |-> "ok", access_token |-> a, refresh_token |-> r]
    ELSE [result |-> "failed", access_token |-> None, refresh_token |-> None]
NoRefresh == [result |-> "none", access_token |-> None, refresh_token |-> None]

\* the try block of a refresh without its save_tokens call
Refreshed_WithoutSave(a) ==
    /\ access_token' = a
    /\ tokens' = Some([tokens[1] EXCEPT !.access_token = a])
    /\ token_file' = token_file

\* refresh_access_token succeeded with access token a: the three
\* assignments of the try block, save_tokens included
Refreshed(a) ==
    /\ access_token' = a
    /\ tokens' = Some([tokens[1] EXCEPT !.access_token = a])
    /\ token_file' = save_tokens([tokens[1] EXCEPT !.access_token = a])

\* the refresh of the "nothing playing" branch: a failure is only logged;
\* the advertisement signal is put either way
refresh_idle(ok, a, r) ==
    /\ media_pc = "refresh_idle"
    /\ refreshes' = refreshes + 1
    /\ last_refresh' = RefreshResponse(ok, a, r)
    /\ refreshes_in_flight' = refreshes_in_flight - 1
    /\ IF ok THEN Refreshed(a)
       ELSE UNCHANGED <<access_token, tokens, token_file>>
    /\ media_queue' = Append(media_queue, NoTitleSignal)
    /\ media_pc' = "poll"
    /\ UNCHANGED <<auth_code, auth_server, refresh_token, polls, last_poll,
                   media_running>>
    /\ UNCHANGED <<visualVars, samplerVars, uiVars>>

\* the 401 handler without its break: a failed refresh puts the token error
\* signal and the loop goes on
refresh_401_ContinuesAfterFailure(ok, a, r) ==
    /\ media_pc = "refresh_401"
    /\ refreshes' = refreshes + 1
    /\ last_refresh' = RefreshResponse(ok, a, r)
    /\ refreshes_in_flight' = refreshes_in_flight - 1
    /\ IF ok
       THEN /\ access_token' = a
            /\ tokens' = Some([tokens[1] EXCEPT !.access_token = a])
            /\ token_file' = save_tokens([tokens[1] EXCEPT !.access_token = a])
            /\ media_queue' = Append(media_queue, HttpErrorSignal(last_poll.status))
       ELSE /\ UNCHANGED <<access_token, tokens, token_file>>
            /\ media_queue' = Append(media_queue, TokenErrorSignal)
    /\ media_pc' = "poll"
    /\ UNCHANGED <<auth_code, auth_server, refresh_token, polls, last_poll,
                   media_running>>
    /\ UNCHANGED <<visualVars, samplerVars, uiVars>>

\* the 401 handler falling through to the put of the HTTP error signal
\* after the token error signal of a failed refresh
refresh_401_PutsBothSignals(ok, a, r) ==
    /\ media_pc = "refresh_401"
    /\ refreshes' = refreshes + 1
    /\ last_refresh' = RefreshResponse(ok, a, r)
    /\ refreshes_in_flight' = refreshes_in_flight - 1
    /\ IF ok
       THEN /\ Refreshed(a)
            /\ media_queue' = Append(media_queue, HttpErrorSignal(last_poll.status))
            /\ media_pc' = "poll"
       ELSE /\ UNCHANGED <<access_token, tokens, token_file>>
            /\ media_queue' = media_queue \o <<TokenErrorSignal,
                                               HttpErrorSignal(last_poll.status)>>
            /\ media_pc' = "exited"
    /\ UNCHANGED <<auth_code, auth_server, refresh_token, polls, last_poll,
                   media_running>>
    /\ UNCHANGED <<visualVars, samplerVars, uiVars>>

\* the 401 handler: after a successful refresh the HTTP error signal is put
\* and the loop goes on; a failed refresh puts the token error signal and
\* breaks out of the loop
refresh_401(ok, a, r) ==
    /\ media_pc = "refresh_401"
    /\ refreshes' = refreshes + 1
    /\ last_refresh' = RefreshResponse(ok, a, r)
    /\ refreshes_in_flight' = refreshes_in_flight - 1
    /\ IF ok
       THEN /\ Refreshed(a)
            /\ media_queue' = Append(media_queue, HttpErrorSignal(last_poll.status))
            /\ media_pc' = "poll"
       ELSE /\ UNCHANGED <<access_token, tokens, token_file>>
            /\ media_queue' = Append(media_queue, TokenErrorSignal)
            /\ media_pc' = "exited"
    /\ UNCHANGED <<auth_code, auth_server, refresh_token, polls, last_poll,
                   media_running>>
    /\ UNCHANGED <<visualVars, samplerVars, uiVars>>

\* ------------------------------------------------------------- the clock
\* the timer is armed for 30 * 60 seconds
CountdownSeconds == 30 * 60
CountdownTicks == CountdownSeconds * TicksPerSecond

\* the clock readings of the model
TimePoints ==
    {t \in 0..(MaxEpochs * CountdownTicks + MaxOffset) :
        \E k \in 0..MaxEpochs : Abs(t - k * CountdownTicks) <= MaxOffset}

\* time passes
Tick ==
    /\ \E t \in TimePoints : t > now /\ now' = t
    /\ UNCHANGED <<current_title, current_artist, is_ad_playing, timer_running,
                   timer_end_time, timer_last_state, timer_label,
                   ad_indicator_window, timer_label_window,
                   muted_indicator_window, audio_muted, consumed, mute_calls,
                   ad_ended_at, drained, override>>
    /\ UNCHANGED <<visualVars, samplerVars, mediaVars>>

\* int(x) of a span of d ticks: whole seconds, truncated towards zero
IntSeconds(d) ==
    IF d >= 0 THEN d \div TicksPerSecond ELSE 0 - ((0 - d) \div TicksPerSecond)

\* --------------------------------------------- Visualizer.update_ui machine
\* the texts of timer_label: "?? ??:??", "30:00" and "?? mm:ss" (the first
\* and the last carry the newspaper sign)
BlankLabel == [kind |-> "unknown", mins |-> 0, secs |-> 0]
StartLabel == [kind |-> "plain", mins |-> 30, secs |-> 0]
TimeLabel(remaining) ==
    [kind |-> "remaining", mins |-> remaining \div 60, secs |-> remaining % 60]

\* the fields update_ui reads and writes, as one record
Machine ==
    [current_title |-> current_title, current_artist |-> current_artist,
     is_ad_playing |-> is_ad_playing, timer_running |-> timer_running,
     timer_end_time |-> timer_end_time, timer_last_state |-> timer_last_state,
     timer_label |-> timer_label, ad_indicator_window |-> ad_indicator_window,
     timer_label_window |-> timer_label_window, audio_muted |-> audio_muted,
     consumed |-> consumed, mute_calls |-> mute_calls,
     ad_ended_at |-> ad_ended_at]

\* mute_all_audio(muted) called by update_ui for the signal being consumed
MuteCall(m, muted) ==
    [m EXCEPT !.audio_muted = muted,
              !.mute_calls = Append(@, [muted |-> muted, sig |-> Len(m.consumed)])]

\* title and artist are stored when either differs
StoreMedia(m, sig) ==
    [m EXCEPT !.current_title = sig.title, !.current_artist = sig.artist,
              !.consumed = Append(@, sig.is_ad)]

\* the first signal finds timer_last_state None: the blank state is set
InitBlank(m) ==
    IF m.timer_last_state = None
    THEN [m EXCEPT !.is_ad_playing = FALSE, !.timer_running = FALSE,
                   !.timer_end_time = NoneOpt, !.timer_label = BlankLabel,
                   !.timer_last_state = "blank"]
    ELSE m

\* the start of an advertisement that leaves the timer running
AdStarts_KeepsTimerRunning(m, t) ==
    [MuteCall(m, TRUE) EXCEPT !.is_ad_playing = TRUE,
                              !.timer_end_time = Some(t + CountdownTicks),
                              !.timer_label = BlankLabel]

\* is_currently_ad and not is_ad_playing: mute, hold the timer, arm its end
AdStarts(m, t) ==
    [MuteCall(m, TRUE) EXCEPT !.is_ad_playing = TRUE, !.timer_running = FALSE,
                              !.timer_end_time = Some(t + CountdownTicks),
                              !.timer_label = BlankLabel]

\* the advertisement branch muting at every advertisement signal
AdSignal_MutesEverySignal(m, t) ==
    [AdStarts(m, t) EXCEPT !.ad_indicator_window = TRUE,
                           !.timer_label_window = FALSE,
                           !.timer_last_state = "ad"]

\* the branch of an advertisement signal
AdSignal(m, t) ==
    [(IF ~m.is_ad_playing THEN AdStarts(m, t) ELSE m)
        EXCEPT !.ad_indicator_window = TRUE, !.timer_label_window = FALSE,
               !.timer_last_state = "ad"]

\* the end of an advertisement that leaves its indicator on the canvas
AdEnds_KeepsIndicator(m, t) ==
    [MuteCall(m, FALSE) EXCEPT !.is_ad_playing = FALSE,
                               !.timer_running = TRUE,
                               !.timer_label = StartLabel,
                               !.timer_label_window = TRUE,
                               !.timer_last_state = "timer",
                               !.ad_ended_at = Some(t)]

\* the advertisement just ended: unmute, hide the indicator, run the timer
AdEnds(m, t) ==
    [MuteCall(m, FALSE) EXCEPT !.is_ad_playing = FALSE,
                               !.ad_indicator_window = FALSE,
                               !.timer_running = TRUE,
                               !.timer_label = StartLabel,
                               !.timer_label_window = TRUE,
                               !.timer_last_state = "timer",
                               !.ad_ended_at = Some(t)]

\* int(self.timer_end_time - time.time()) if self.timer_end_time else 0
Remaining(m, t) ==
    IF m.timer_end_time # NoneOpt /\ m.timer_end_time # Some(0)
    THEN IntSeconds(m.timer_end_time[1] - t)
    ELSE 0

\* the timer branch testing remaining >= 0
TimerRuns_ShowsZero(m, t) ==
    IF Remaining(m, t) >= 0
    THEN [m EXCEPT !.timer_label = TimeLabel(Remaining(m, t)),
                   !.timer_label_window = TRUE,
                   !.timer_last_state = "timer"]
    ELSE [m EXCEPT !.timer_label = BlankLabel, !.timer_running = FALSE,
                   !.timer_end_time = NoneOpt, !.timer_last_state = "blank",
                   !.timer_label_window = FALSE]

\* the timer runs: the remaining time is shown, or the timer has expired
TimerRuns(m, t) ==
    IF Remaining(m, t) > 0
    THEN [m EXCEPT !.timer_label = TimeLabel(Remaining(m, t)),
                   !.timer_label_window = TRUE,
                   !.timer_last_state = "timer"]
    ELSE [m EXCEPT !.timer_label = BlankLabel, !.timer_running = FALSE,
                   !.timer_end_time = NoneOpt, !.timer_last_state = "blank",
                   !.timer_label_window = FALSE]

\* neither advertisement nor timer
StaysBlank(m) ==
    [m EXCEPT !.timer_label = BlankLabel, !.timer_label_window = FALSE,
              !.timer_last_state = "blank"]

\* the loop body testing the timer instead of is_ad_playing before unmuting
ProcessSignal_UnmutesWithoutAd(m, sig, t) ==
    LET m1 == InitBlank(StoreMedia(m, sig))
    IN  IF sig.is_ad THEN AdSignal(m1, t)
        ELSE IF ~m1.timer_running THEN AdEnds(m1, t)
        ELSE TimerRuns(m1, t)

\* the loop body muting again at an advertisement signal that finds the
\* audio not muted
ProcessSignal_ReassertsMute(m, sig, t) ==
    LET m1 == InitBlank(StoreMedia(m, sig))
    IN  IF sig.is_ad
        THEN IF ~m1.audio_muted THEN AdSignal_MutesEverySignal(m1, t)
             ELSE AdSignal(m1, t)
        ELSE IF m1.is_ad_playing THEN AdEnds(m1, t)
        ELSE IF m1.timer_running THEN TimerRuns(m1, t)
        ELSE StaysBlank(m1)

\* the body of the while loop of update_ui for one dequeued signal
ProcessSignal(m, sig, t) ==
    LET m1 == InitBlank(StoreMedia(m, sig))
    IN  IF sig.is_ad THEN AdSignal(m1, t)
        ELSE IF m1.is_ad_playing THEN AdEnds(m1, t)
        ELSE IF m1.timer_running THEN TimerRuns(m1, t)
        ELSE StaysBlank(m1)

\* a drain that keeps only the latest pending signal
ProcessAll_LatestOnly(m, q, t) ==
    IF q = <<>> THEN m ELSE ProcessSignal(m, q[Len(q)], t)

\* the while loop of update_ui: every pending signal, in queue order
RECURSIVE ProcessAll(_, _, _)
ProcessAll(m, q, t) ==
    IF q = <<>> THEN m ELSE ProcessAll(ProcessSignal(m, Head(q), t), Tail(q), t)

\* update_ui, run every 500 ms: the queue is drained into the machine
update_ui ==
    /\ media_queue # <<>>
    /\ LET m == ProcessAll(Machine, media_queue, now)
       IN  /\ current_title' = m.current_title
           /\ current_artist' = m.current_artist
           /\ is_ad_playing' = m.is_ad_playing
           /\ timer_running' = m.timer_running
           /\ timer_end_time' = m.timer_end_time
           /\ timer_last_state' = m.timer_last_state
           /\ timer_label' = m.timer_label
           /\ ad_indicator_window' = m.ad_indicator_window
           /\ timer_label_window' = m.timer_label_window
           /\ audio_muted' = m.audio_muted
           /\ consumed' = m.consumed
           /\ mute_calls' = m.mute_calls
           /\ ad_ended_at' = m.ad_ended_at
    /\ drained' = Len(media_queue)
    /\ media_queue' = <<>>
    /\ UNCHANGED <<now, muted_indicator_window, override>>
    /\ UNCHANGED <<token_file, auth_code, auth_server, media_pc, tokens,
                   access_token, refresh_token, polls, last_poll, refreshes,
                   last_refresh,
                   refreshes_in_flight, media_running>>
    /\ UNCHANGED <<visualVars, samplerVars>>

\* a manual mute_all_audio(muted) as it is recorded
Override(muted) ==
    [muted |-> muted, in_ad |-> is_ad_playing, at |-> Len(consumed)]

\* force_mute (F6) and force_unmute (F7)
force_mute ==
    /\ audio_muted' = TRUE
    /\ muted_indicator_window' = TRUE
    /\ override' = Some(Override(TRUE))
    /\ UNCHANGED <<now, current_title, current_artist, is_ad_playing,
                   timer_running, timer_end_time, timer_last_state,
                   timer_label, ad_indicator_window, timer_label_window,
                   consumed, mute_calls, ad_ended_at, drained>>
    /\ UNCHANGED <<visualVars, samplerVars, mediaVars>>

force_unmute ==
    /\ audio_muted' = FALSE
    /\ muted_indicator_window' = FALSE
    /\ override' = Some(Override(FALSE))
    /\ UNCHANGED <<now, current_title, current_artist, is_ad_playing,
                   timer_running, timer_end_time, timer_last_state,
                   timer_label, ad_indicator_window, timer_label_window,
                   consumed, mute_calls, ad_ended_at, drained>>
    /\ UNCHANGED <<visualVars, samplerVars, mediaVars>>

\* ------------------------------------------------------------ initial state
InitVisual ==
    /\ BAR_COUNT \in 1..MaxBars
    /\ SMOOTHING \in SmoothingFactors
    /\ audio_queue = <<>>
    /\ bars = Zeros(BAR_COUNT)
    /\ target = Zeros(BAR_COUNT)
    /\ visuals_scheduled = TRUE

InitSampler ==
    /\ audio_pc = "start"
    /\ audio_running = TRUE
    /\ com_inits = 0
    /\ com_uninits = 0
    /\ ticks_after_stop = 0
    /\ read_failures = 0

InitMediaThread ==
    /\ auth_code = None
    /\ auth_server = "off"
    /\ media_pc = "start"
    /\ tokens = NoneOpt
    /\ access_token = None
    /\ refresh_token = None
    /\ media_queue = <<>>
    /\ polls = 0
    /\ last_poll = NoPoll
    /\ refreshes = 0
    /\ last_refresh = NoRefresh
    /\ refreshes_in_flight = 0
    /\ media_running = TRUE

InitMedia ==
    /\ token_file \in {NoFile, save_tokens(TokenSet("access1", "refresh1"))}
    /\ InitMediaThread

InitUI ==
    /\ now = 0
    /\ current_title = "No Title"
    /\ current_artist = "No Playback"
    /\ is_ad_playing = FALSE
    /\ timer_running = FALSE
    /\ timer_end_time = NoneOpt
    /\ timer_last_state = None
    /\ timer_label = BlankLabel
    /\ ad_indicator_window = FALSE
    /\ timer_label_window = FALSE
    /\ muted_indicator_window = FALSE
    /\ audio_muted = FALSE
    /\ consumed = <<>>
    /\ mute_calls = <<>>
    /\ ad_ended_at = NoneOpt
    /\ drained = 0
    /\ override = NoneOpt

Init == InitVisual /\ InitSampler /\ InitMedia /\ InitUI

\* --------------------------------------------------------- specifications
SamplerTick == AudioCapture_run(PeakLevels, RandCoeffs)

ReloadKey == \E n \in 1..MaxBars : reload_config(n)

NextVisual ==
    \/ AudioCapture_start
    \/ AudioCapture_test
    \/ SamplerTick
    \/ update_visuals
    \/ ReloadKey

\* the sampler thread, the smoothing tick and the reload key; the media
\* thread is not started
InitVisualOnly == Init /\ token_file = NoFile

SpecVisual == InitVisualOnly /\ [][NextVisual]_vars

\* the sampler thread from its start to its end, with stop() and the
\* smoothing tick that empties audio_q
NextSampler ==
    \/ AudioCapture_start
    \/ AudioCapture_test
    \/ SamplerTick
    \/ AudioCapture_run_raises
    \/ AudioCapture_stop
    \/ update_visuals

SpecSampler == InitVisualOnly /\ [][NextSampler]_vars

\* what GetPeakValue gives for a session: a level, or nothing when it raises
SessionReads == {<<>>, <<0>>, <<One \div 2>>, <<One>>}

\* the audio sessions of one iteration, each with its read
SessionLists ==
    UNION {[1..k -> SessionReads] : k \in 0..MaxSessions}

SamplerTickSessions ==
    \E sessions \in SessionLists : \E coeffs \in Vectors(BAR_COUNT, RandCoeffs) :
        AudioCapture_iteration(sessions, coeffs)

\* the sampler thread on sessions some of which cannot be read, filling
\* its queue
NextSessions ==
    \/ AudioCapture_start
    \/ AudioCapture_test
    \/ SamplerTickSessions
    \/ AudioCapture_run_raises

SpecSessions == InitVisualOnly /\ [][NextSessions]_vars

\* bar counts of a config.json that no bar display can have
MalformedBarCounts == {0 - 1, 0}

ReloadMalformed == \E n \in MalformedBarCounts : reload_config(n)

\* the sampler, the smoothing tick and reloads of well-formed and of
\* malformed bar counts
NextReload ==
    \/ AudioCapture_start
    \/ AudioCapture_test
    \/ SamplerTick
    \/ AudioCapture_run_raises
    \/ update_visuals
    \/ ReloadKey
    \/ ReloadMalformed

SpecReload == InitVisualOnly /\ [][NextReload]_vars

\* the smoothing step alone, one bar, no reload: every smoothing factor
\* below 1 and every frame value of the format in [1/4, 1)
SmoothCoeffs == {c \in Floats : 4 * c >= One /\ c < One}

InitSmooth ==
    /\ InitSampler /\ InitMedia /\ InitUI
    /\ token_file = NoFile
    /\ BAR_COUNT = 1
    /\ SMOOTHING \in {a \in Floats : a < One}
    /\ audio_queue = <<>>
    /\ bars = Zeros(BAR_COUNT)
    /\ target = Zeros(BAR_COUNT)
    /\ visuals_scheduled = TRUE

SamplerTickAnyLevel == AudioCapture_run({One}, SmoothCoeffs)

NextSmooth ==
    \/ AudioCapture_start
    \/ AudioCapture_test
    \/ SamplerTickAnyLevel
    \/ update_visuals

SpecSmooth == InitSmooth /\ [][NextSmooth]_vars

\* the visualizer of the two media specifications: the default smoothing
\* and the largest bar count
InitVisualFixed == InitVisual /\ BAR_COUNT = MaxBars /\ SMOOTHING = DefaultSmoothing

Listener == \E req \in AuthRequests : start_auth_server(req)

Exchange ==
    \E ok \in BOOLEAN : \E a \in AccessTokens : \E r \in RefreshTokens :
        initiate_auth_flow(ok, a, r)

Poll == \E r \in PollResponses : poll(r)

RefreshIdle ==
    \E ok \in BOOLEAN : \E a \in AccessTokens : \E r \in NewRefreshTokens :
        refresh_idle(ok, a, r)

Refresh401 ==
    \E ok \in BOOLEAN : \E a \in AccessTokens : \E r \in NewRefreshTokens :
        refresh_401(ok, a, r)

NextPoll ==
    \/ run_start
    \/ Listener
    \/ Exchange
    \/ Poll
    \/ RefreshIdle
    \/ Refresh401
    \/ update_ui

\* the media thread from its start, with every answer of the two
\* endpoints, and update_ui draining media_q; the clock stands still
InitPoll == InitVisualFixed /\ InitSampler /\ InitMedia /\ InitUI

SpecPoll == InitPoll /\ [][NextPoll]_vars

\* the media thread started on each kind of token file: none, one that is
\* not JSON, and a persisted token set
InitStartup ==
    /\ InitVisualFixed /\ InitSampler /\ InitMediaThread /\ InitUI
    /\ token_file \in {NoFile, InvalidFile,
                        save_tokens(TokenSet("access1", "refresh1"))}

SpecStartup == InitStartup /\ [][NextPoll]_vars

\* the well-formed callback request reaches the listener
Callback == start_auth_server([path |-> "/callback", code |-> "code1"])

\* the same steps, with the threads scheduled: run() and the polling loop
\* keep running, the listener thread serves the request it accepted, and
\* the browser's redirect to /callback is delivered while the listener is
\* listening
SpecPollFair ==
    /\ InitPoll /\ [][NextPoll]_vars
    /\ WF_vars(run_start) /\ WF_vars(Callback) /\ WF_vars(Exchange)
    /\ WF_vars(Poll) /\ WF_vars(RefreshIdle) /\ WF_vars(Refresh401)
    /\ WF_vars(update_ui)

\* the media thread with stop(): every thread is scheduled and every
\* request to the two endpoints is answered; whether and what the browser
\* sends to the listener is up to the user
NextMediaStop ==
    \/ run_start
    \/ Listener
    \/ Exchange
    \/ Poll
    \/ RefreshIdle
    \/ Refresh401
    \/ update_ui
    \/ SpotifyMediaCapture_stop
    \/ run_exit

SpecMediaStop ==
    /\ InitPoll /\ [][NextMediaStop]_vars
    /\ WF_vars(run_start) /\ WF_vars(Exchange) /\ WF_vars(Poll)
    /\ WF_vars(RefreshIdle) /\ WF_vars(Refresh401) /\ WF_vars(update_ui)
    /\ WF_vars(run_exit)

\* the answers that make the three kinds of iteration of the polling loop
AdPollResponses ==
    {r \in PollResponses :
        \/ r.status \in {204, 401}
        \/ r.status = 200 /\ r.is_playing /\ r.item = TrackA}

PollAd == \E r \in AdPollResponses : poll(r)

RefreshIdleAd == \E ok \in BOOLEAN : refresh_idle(ok, "access1", None)

Refresh401Ad == \E ok \in BOOLEAN : refresh_401(ok, "access1", None)

NextAd ==
    \/ run_start
    \/ PollAd
    \/ RefreshIdleAd
    \/ Refresh401Ad
    \/ update_ui
    \/ Tick

\* the advertisement machine fed by the polling loop, with the clock
\* running; the token file is there from the start
InitAd == InitPoll /\ token_file # NoFile

SpecAd == InitAd /\ [][NextAd]_vars

\* the three threads of the program side by side: the media thread polling
\* with a persisted token set, the sampler thread filling audio_q, and
\* update_ui on the main thread
NextThreads ==
    \/ run_start
    \/ PollAd
    \/ RefreshIdleAd
    \/ Refresh401Ad
    \/ update_ui
    \/ AudioCapture_start
    \/ AudioCapture_test
    \/ SamplerTick
    \/ AudioCapture_run_raises

SpecThreads == InitAd /\ [][NextThreads]_vars

\* the advertisement machine with the two mute keys pressed at any moment;
\* the clock stands still
NextOverride ==
    \/ run_start
    \/ PollAd
    \/ RefreshIdleAd
    \/ Refresh401Ad
    \/ update_ui
    \/ force_mute
    \/ force_unmute

SpecOverride == InitAd /\ [][NextOverride]_vars

\* the answers that lead to the end of the loop: a track, or a 401
SentinelPollResponses ==
    {r \in AdPollResponses : r.status # 204}

PollSentinel == \E r \in SentinelPollResponses : poll(r)

\* the media thread up to its exit on a failed refresh and the machine
\* afterwards, with the clock advancing and the two mute keys
NextSentinel ==
    \/ run_start
    \/ PollSentinel
    \/ Refresh401Ad
    \/ update_ui
    \/ Tick
    \/ force_mute
    \/ force_unmute

SpecSentinel == InitAd /\ [][NextSentinel]_vars

\* ------------------------------------------------------------------ claims

\* C1: update_ui never issues an automatic unmute unless the automatic call
\* before it was a mute issued earlier in the same advertisement episode:
\* every signal from the one that caused the mute up to the one before the
\* unmute was an advertisement.
C1_UnmuteOnlyAfterMute ==
    \A k \in 1..Len(mute_calls) :
        ~mute_calls[k].muted =>
            /\ k > 1
            /\ mute_calls[k - 1].muted
            /\ mute_calls[k - 1].sig < mute_calls[k].sig
            /\ \A j \in mute_calls[k - 1].sig .. (mute_calls[k].sig - 1) :
                  consumed[j]
            /\ ~consumed[mute_calls[k].sig]

C1_Witness ==
    /\ Len(mute_calls) >= 2
    /\ ~mute_calls[Len(mute_calls)].muted

\* the mute and unmute calls the claim C2 expects for the signals c[1..i]
RECURSIVE ExpectedCalls(_, _)
ExpectedCalls(c, i) ==
    IF i = 0 THEN <<>>
    ELSE LET rest == ExpectedCalls(c, i - 1)
             prev == i > 1 /\ c[i - 1]
         IN  IF c[i] /\ ~prev THEN Append(rest, [muted |-> TRUE, sig |-> i])
             ELSE IF ~c[i] /\ prev THEN Append(rest, [muted |-> FALSE, sig |-> i])
             ELSE rest

\* C2: starting in Blank, exactly one mute is issued per advertisement
\* episode, at its first signal, and exactly one unmute, at the first
\* signal that is not an advertisement after it; a signal that repeats
\* is_advertisement issues neither.
C2_OneMuteOneUnmutePerEpisode ==
    mute_calls = ExpectedCalls(consumed, Len(consumed))

\* the scenario [not ad, ad, not ad]: mute at signal 2, unmute at signal 3,
\* then the countdown
C2_Witness ==
    /\ consumed = <<FALSE, TRUE, FALSE>>
    /\ mute_calls = <<[muted |-> TRUE, sig |-> 2], [muted |-> FALSE, sig |-> 3]>>
    /\ timer_running

\* C3: the countdown starts at the wall-clock time of the Advertisement ->
\* Countdown transition: while it runs, its end time is the time the
\* advertisement ended plus 1800 s.
C3_CountdownStartsAtAdEnd ==
    (timer_running /\ ad_ended_at # NoneOpt) =>
        timer_end_time = Some(ad_ended_at[1] + CountdownTicks)

\* C4: a reported countdown value is positive and is reported only while
\* the timer runs; update_ui consuming signals that are no advertisement
\* when less than a whole second remains leaves the machine Blank (timer
\* stopped, end time cleared, label and window cleared, no mute or unmute
\* call); the timer starts running only in a step that issues the unmute
\* of an advertisement episode that ended.
C4_CountdownNeverNonPositive ==
    [][/\ timer_label'.kind # "unknown" =>
            (timer_running' /\ timer_label'.mins * 60 + timer_label'.secs > 0)
       /\ timer_label_window' => timer_running'
       /\ (/\ update_ui
           /\ timer_running
           /\ \A i \in 1..Len(media_queue) : ~media_queue[i].is_ad
           /\ timer_end_time[1] - now < TicksPerSecond) =>
              /\ ~timer_running'
              /\ timer_end_time' = NoneOpt
              /\ timer_label' = BlankLabel
              /\ ~timer_label_window'
              /\ timer_last_state' = "blank"
              /\ mute_calls' = mute_calls
       /\ (~timer_running /\ timer_running') =>
              /\ Len(mute_calls') > Len(mute_calls)
              /\ ~mute_calls'[Len(mute_calls')].muted]_vars

\* the countdown of an ended advertisement has expired
C4_Witness ==
    /\ Len(mute_calls) >= 2
    /\ ~mute_calls[Len(mute_calls)].muted
    /\ ~timer_running
    /\ timer_end_time = NoneOpt
    /\ timer_last_state = "blank"

\* C5: on each tick of update_visuals, target becomes the most recently
\* enqueued pending frame (it is unchanged when none is pending) and then
\* current[i] = a*current[i] + (1-a)*target[i] for every bar i.
C5_SmoothingTick ==
    [][update_visuals =>
        /\ target' = IF audio_queue = <<>> THEN target
                     ELSE audio_queue[Len(audio_queue)]
        /\ Len(target') = Len(bars)
        /\ Len(bars') = Len(bars)
        /\ \A i \in 1..Len(bars) :
              bars'[i] = FAdd(FMul(SMOOTHING, bars[i]),
                              FMul(FSub(One, SMOOTHING), target'[i]))]_vars

\* C6: under a constant target and a smoothing factor below 1, a smoothing
\* tick leaves every component of current between its previous value and
\* the target's, and never farther from the target than it was.
C6_NoOvershoot ==
    [][(update_visuals /\ target' = target /\ SMOOTHING < One
            /\ Len(bars) = Len(target) /\ Len(bars') = Len(bars)) =>
        \A i \in 1..Len(bars) :
            /\ bars'[i] <= Max(bars[i], target[i])
            /\ bars'[i] >= Min(bars[i], target[i])
            /\ Abs(bars'[i] - target[i]) <= Abs(bars[i] - target[i])]_vars

\* C7: after a reload of the bar count, current and target both have the
\* configured size at every later tick (a pending frame of the old size is
\* never installed as target) and the consumer tick stays scheduled.
C7_ResizeHandled ==
    /\ Len(bars) = BAR_COUNT
    /\ Len(target) = BAR_COUNT
    /\ visuals_scheduled

\* C8: the number of pending amplitude frames stays within a fixed
\* capacity; stated for the largest capacity the model can tell from none,
\* one below the length at which the model itself stops the producer.
C8_QueuesBounded ==
    /\ Len(audio_queue) < MaxPending
    /\ Len(media_queue) < MaxPending

\* a poll answered with a playing item of type track with an artist
PlayingTrack(r) ==
    /\ r.status = 200
    /\ r.is_playing
    /\ r.item.type = "track"
    /\ Len(r.item.artists) >= 1

\* C9: a signal put on media_q has is_advertisement = false exactly when
\* the poll of its iteration returned a playing item of type track with at
\* least one artist, and then carries its name and first artist; every
\* other signal (204, not playing, no track, every error) has it true.
C9_AdFlagOfSignals ==
    [][Len(media_queue') > Len(media_queue) =>
        LET sig == media_queue'[Len(media_queue')]
        IN  /\ ~sig.is_ad <=> PlayingTrack(last_poll')
            /\ ~sig.is_ad => /\ sig.title = last_poll'.item.name
                             /\ sig.artist = last_poll'.item.artists[1]]_vars

C9_Witness ==
    /\ media_queue # <<>>
    /\ ~media_queue[Len(media_queue)].is_ad
    /\ media_queue[Len(media_queue)].artist = "Artist A"
    /\ PlayingTrack(last_poll)

\* C10: a poll answered 401 is followed by exactly one refresh attempt, made
\* before the next poll: the loop is back at a poll (or has left) only
\* after one attempt, and no iteration makes a second one.
C10_OneRefreshPer401 ==
    /\ refreshes <= 1
    /\ media_pc = "refresh_401" => (last_poll.status = 401 /\ refreshes = 0)
    /\ (last_poll.status = 401 /\ media_pc \in {"poll", "exited"}) =>
            refreshes = 1

C10_Witness ==
    /\ last_poll.status = 401
    /\ media_pc = "poll"
    /\ refreshes = 1
    /\ polls < MaxPolls

\* a step of the polling thread that made a refresh attempt
RefreshStep == refreshes' = refreshes + 1

\* C11: when the refresh of the 401 handler fails, exactly one signal is put,
\* the token error sentinel with is_advertisement true, and the loop is
\* left; once the loop is left no poll or refresh attempt is made and no
\* signal is put.
C11_FailedRefreshOn401IsFatal ==
    [][/\ (RefreshStep /\ media_pc = "refresh_401"
             /\ last_refresh'.result = "failed") =>
            /\ media_queue' = Append(media_queue, TokenErrorSignal)
            /\ TokenErrorSignal.is_ad
            /\ TokenErrorSignal.title # NoTitleSignal.title
            /\ media_pc' = "exited"
       /\ media_pc = "exited" =>
            /\ media_pc' = "exited"
            /\ polls' = polls
            /\ refreshes' = refreshes
            /\ last_refresh' = last_refresh
            /\ Len(media_queue') <= Len(media_queue)]_vars

\* the loop was left after the sentinel, which update_ui has consumed
C11_Witness ==
    /\ media_pc = "exited"
    /\ last_poll.status = 401
    /\ last_refresh.result = "failed"
    /\ current_title = TokenErrorSignal.title
    /\ media_queue = <<>>

\* C12: once a refresh attempt has failed, on whichever path, the polling
\* thread makes no further poll and no further refresh attempt and puts no
\* signal of a track.
C12_EveryFailedRefreshIsTerminal ==
    [][last_refresh.result = "failed" =>
        /\ polls' = polls
        /\ refreshes' = refreshes
        /\ Len(media_queue') > Len(media_queue) =>
              media_queue'[Len(media_queue')].is_ad]_vars

C14_RefreshMergesTokenSet ==
    [][(RefreshStep /\ last_refresh'.result = "ok") =>
        LET merged == IF last_refresh'.refresh_token # None
                      THEN last_refresh'.refresh_token
                      ELSE token_file.data.refresh_token
        IN  /\ token_file'.data.access_token = last_refresh'.access_token
            /\ token_file'.data.refresh_token = merged
            /\ refresh_token' = merged]_vars

\* C20: a poll answered 401 whose refresh succeeds puts no signal with
\* is_advertisement true.
C20_RefreshIsTransparent ==
    [][(RefreshStep /\ media_pc = "refresh_401"
            /\ last_refresh'.result = "ok") =>
        \A i \in (Len(media_queue) + 1)..Len(media_queue') :
            ~media_queue'[i].is_ad]_vars

\* C15: a request of another path than /callback, or without a code, is
\* answered 404 and leaves auth_code as it was; the listener serves one
\* request and is closed, so it accepts none once a code is captured.
C15_ListenerRejectsOtherRequests ==
    [][/\ \A req \in AuthRequests : start_auth_server(req) =>
            /\ (req.path # "/callback" \/ req.code = None) =>
                  (do_GET_status(req) = 404 /\ auth_code' = auth_code)
            /\ auth_server' = "closed"
       /\ auth_code' # None => auth_server' = "closed"
       /\ auth_server = "closed" => auth_server' = "closed"]_vars

\* a request was rejected: no code is captured and the listener is closed
C15_Witness ==
    /\ auth_server = "closed"
    /\ auth_code = None
    /\ media_pc = "auth_wait"

\* C16: an authorization attempt whose callback request is delivered
\* whenever the listener is there to take it eventually captures the code
\* and reaches the exchange, also when another request came first.
C16_CallbackEventuallyCaptured ==
    (media_pc = "auth_wait") ~> (auth_code # None /\ media_pc # "auth_wait")

\* C17: after stop() at most one iteration of the sampling loop completes
\* and the loop test then ends the loop; COM is initialised at most once
\* and, on every way out of the loop, uninitialised exactly once; it is
\* held while the loop runs and never released without having been
\* initialised.
C17_SamplerStopsAndReleases ==
    [][/\ ticks_after_stop' <= 1
       /\ (audio_pc' = "body" /\ ~audio_running') => ticks_after_stop' = 0
       /\ (audio_pc = "test" /\ ~audio_running /\ audio_pc' # audio_pc) =>
              audio_pc' = "exited"
       /\ audio_pc' = "exited" => (com_inits' = 1 /\ com_uninits' = 1)
       /\ audio_pc' \in {"test", "body"} => (com_inits' = 1 /\ com_uninits' = 0)
       /\ audio_pc' \in {"start", "failed"} => (com_inits' = 0 /\ com_uninits' = 0)
       /\ audio_pc = "exited" => audio_pc' = "exited"]_vars

\* stop() came during an iteration, which completed; the loop then ended
\* and COM was released
C17_Witness ==
    /\ ~audio_running
    /\ ticks_after_stop = 1
    /\ audio_pc = "exited"
    /\ com_uninits = 1

\* C18: once stop() is requested the media thread eventually leaves run(),
\* wherever it stands, the wait for the authorization code included.
C18_MediaThreadExitsAfterStop ==
    (~media_running) ~> (media_pc \in {"exited", "died"})

\* the signals consumed since the latest manual mute or unmute
SinceOverride == (override[1].at + 1)..Len(consumed)

\* C19: after force_unmute during an advertisement, further advertisement
\* signals cause no mute call and the audio stays unmuted; after force_mute
\* outside an advertisement, further signals that are no advertisement
\* cause no unmute call and the audio stays muted.
C19_NoFightWithOverride ==
    (/\ override # NoneOpt
     /\ override[1].muted # override[1].in_ad
     /\ \A i \in SinceOverride : consumed[i] = override[1].in_ad) =>
        /\ \A k \in 1..Len(mute_calls) : mute_calls[k].sig \notin SinceOverride
        /\ audio_muted = override[1].muted

\* force_unmute came during an advertisement and a further advertisement
\* signal has been consumed
C19_Witness ==
    /\ override # NoneOpt
    /\ ~override[1].muted
    /\ override[1].in_ad
    /\ SinceOverride # {}
    /\ \A i \in SinceOverride : consumed[i]
    /\ ~audio_muted

\* C21: a poll that fails without a response or with an HTTP error other
\* than 401, and a failed refresh while nothing is playing, put their signal
\* and leave the thread at the loop test; run() is left only at the loop
\* test with the stop flag set, or by a failed refresh in the 401 handler.
C21_OnlyOneFatalPath ==
    [][/\ (polls' = polls + 1 /\ last_poll'.status \in {0, 500}) =>
            /\ media_pc' = "poll"
            /\ Len(media_queue') = Len(media_queue) + 1
       /\ (RefreshStep /\ media_pc = "refresh_idle"
             /\ last_refresh'.result = "failed") =>
            /\ media_pc' = "poll"
            /\ Len(media_queue') = Len(media_queue) + 1
       /\ (media_pc # "exited" /\ media_pc' = "exited") =>
            \/ media_pc = "poll" /\ ~media_running
            \/ /\ media_pc = "refresh_401" /\ RefreshStep
               /\ last_refresh'.result = "failed"]_vars

\* after a failed refresh while nothing was playing another poll was made,
\* it failed with a server error, and the loop is at its test again
C21_Witness ==
    /\ last_refresh.result = "failed"
    /\ refreshes = 0
    /\ last_poll.status = 500
    /\ media_pc = "poll"
    /\ media_running
    /\ polls >= 2

\* C22: a reload of a malformed bar count leaves the configured bar count
\* and the sizes of current and target as they were, and a smoothing tick
\* that finds no pending frame stays scheduled.
C22_MalformedReloadKeepsLastGood ==
    [][/\ \A n \in MalformedBarCounts : reload_config(n) =>
            /\ BAR_COUNT' = BAR_COUNT
            /\ Len(bars') = Len(bars)
            /\ Len(target') = Len(target)
       /\ (update_visuals /\ audio_queue = <<>>) => visuals_scheduled']_vars

\* C23: a listener that was started eventually stops listening, also when
\* no request ever reaches it.
C23_ListenerEventuallyStops ==
    (auth_server = "listening") ~> (auth_server = "closed")

\* C24: a code-for-token exchange that fails ends run(): nothing is written
\* to the token file, and from then on the thread makes no further
\* exchange, no poll and puts no signal.
C24_FailedExchangeIsFatal ==
    [][/\ (media_pc = "auth_wait" /\ media_pc' = "died") =>
            token_file' = token_file
       /\ media_pc' = "died" =>
            /\ polls' = 0
            /\ media_queue' = <<>>
            /\ consumed' = <<>>
            /\ token_file'.state # "ok"
            /\ tokens' = NoneOpt
       /\ media_pc = "died" =>
            /\ media_pc' = "died"
            /\ \A ok \in BOOLEAN : \A a \in AccessTokens : \A r \in RefreshTokens :
                  ~initiate_auth_flow(ok, a, r)]_vars

\* the exchange of a captured code has failed
C24_Witness ==
    /\ media_pc = "died"
    /\ auth_code = "code1"
    /\ auth_server = "closed"
    /\ token_file.state # "ok"

Readable(sessions) ==
    {sessions[j][1] : j \in {i \in 1..Len(sessions) : sessions[i] # <<>>}}

\* C26: an iteration of the sampler on sessions some of which cannot be
\* read still puts exactly one frame of BAR_COUNT values and returns to the
\* loop test: the random draw times the largest level that could be read,
\* and zeros when none could.
C26_SessionFailuresAreSkipped ==
    [][\A sessions \in SessionLists :
       \A coeffs \in Vectors(BAR_COUNT, RandCoeffs) :
          AudioCapture_iteration(sessions, coeffs) =>
             LET frame == audio_queue'[Len(audio_queue')]
                 top == CHOOSE m \in Readable(sessions) :
                           \A x \in Readable(sessions) : m >= x
             IN  /\ Len(audio_queue') = Len(audio_queue) + 1
                 /\ audio_pc' = "test"
                 /\ Len(frame) = BAR_COUNT
                 /\ IF Readable(sessions) = {} THEN frame = Zeros(BAR_COUNT)
                    ELSE \A i \in 1..BAR_COUNT :
                            frame[i] = FMul(coeffs[i], top)]_vars

\* an iteration with a session that could not be read has put a frame of
\* the level of another session
C26_Witness ==
    /\ read_failures >= 1
    /\ audio_pc = "test"
    /\ audio_queue # <<>>
    /\ audio_queue[Len(audio_queue)] # Zeros(BAR_COUNT)

\* C27: at most one refresh request to the token endpoint is unanswered at
\* any moment, however the steps of the media thread, of update_ui and of
\* the sampler thread interleave.
C27_OneRefreshInFlight == refreshes_in_flight <= 1

\* a refresh request is unanswered while a frame of the sampler and a signal
\* of the media thread are waiting
C27_Witness ==
    /\ refreshes_in_flight = 1
    /\ media_pc = "refresh_401"
    /\ audio_queue # <<>>
    /\ consumed # <<>>

\* C28: the advertisement flag and the running timer exclude each other,
\* and a running timer has an end time.
C28_AdExcludesTimer ==
    /\ ~(is_ad_playing /\ timer_running)
    /\ timer_running => timer_end_time # NoneOpt

\* the timer runs after an advertisement, towards the end time armed when
\* the advertisement began
C28_Witness ==
    /\ timer_running
    /\ ~is_ad_playing
    /\ timer_end_time # NoneOpt
    /\ ad_ended_at # NoneOpt

\* C29: once a signal has been consumed, the advertisement indicator is on
\* the canvas exactly when is_ad_playing, the countdown label is on the
\* canvas only while the timer runs, and the two are never there together.
C29_IndicatorMatchesMachine ==
    consumed # <<>> =>
        /\ ad_indicator_window <=> is_ad_playing
        /\ timer_label_window => timer_running
        /\ ~(ad_indicator_window /\ timer_label_window)

\* an advertisement is playing after a countdown was shown: the indicator
\* is on the canvas and the countdown label is not
C29_Witness ==
    /\ Len(consumed) >= 3
    /\ is_ad_playing
    /\ ad_indicator_window
    /\ ~timer_label_window
    /\ ad_ended_at # NoneOpt

\* C30: every iteration of the polling loop puts exactly one signal on
\* media_q, whichever branch it takes: the signals put so far, consumed or
\* pending, are as many as the iterations begun, less the one that is still
\* waiting for the answer to its refresh request.
C30_OneSignalPerIteration ==
    Len(consumed) + Len(media_queue) =
        polls - (IF media_pc \in {"refresh_idle", "refresh_401"} THEN 1 ELSE 0)

\* the loop has ended on a failed refresh after an earlier iteration
C30_Witness ==
    /\ polls >= 2
    /\ media_pc = "exited"
    /\ last_poll.status = 401
    /\ last_refresh.result = "failed"
    /\ consumed # <<>>

\* C31: a tick of update_ui consumes every pending signal in queue order,
\* none skipped or merged: each signal whose is_ad differs from the state
\* left by the one before it causes its own mute or unmute call, in the
\* order of the signals; a tick that finds an advertisement followed by a
\* track mutes, then unmutes, and ends with the countdown running.
C31_EverySignalConsumedInOrder ==
    [][update_ui =>
        LET q == media_queue
            n == Len(consumed)
            added == SubSeq(mute_calls', Len(mute_calls) + 1, Len(mute_calls'))
            before(i) == IF i = 1 THEN is_ad_playing ELSE q[i - 1].is_ad
            flips == {i \in 1..Len(q) : q[i].is_ad # before(i)}
        IN  /\ media_queue' = <<>>
            /\ consumed' = consumed \o [i \in 1..Len(q) |-> q[i].is_ad]
            /\ current_title' = q[Len(q)].title
            /\ is_ad_playing' = q[Len(q)].is_ad
            /\ SubSeq(mute_calls', 1, Len(mute_calls)) = mute_calls
            /\ Len(added) = Cardinality(flips)
            /\ \A k \in 1..Len(added) :
                  /\ added[k].sig - n \in flips
                  /\ added[k].muted = q[added[k].sig - n].is_ad
            /\ \A k \in 1..(Len(added) - 1) : added[k].sig < added[k + 1].sig
            /\ (Len(q) = 2 /\ q[1].is_ad /\ ~q[2].is_ad /\ ~is_ad_playing) =>
                  /\ added = <<[muted |-> TRUE, sig |-> n + 1],
                               [muted |-> FALSE, sig |-> n + 2]>>
                  /\ timer_running' /\ timer_label_window'
                  /\ ~ad_indicator_window'
                  /\ timer_end_time' = Some(now + CountdownTicks)]_vars

\* one tick has consumed an advertisement and the track after it: the mute
\* and the unmute were issued for these two signals and the countdown runs
C31_Witness ==
    /\ drained = 2
    /\ Len(consumed) >= 2
    /\ consumed[Len(consumed) - 1] /\ ~consumed[Len(consumed)]
    /\ Len(mute_calls) >= 2
    /\ mute_calls[Len(mute_calls) - 1] =
          [muted |-> TRUE, sig |-> Len(consumed) - 1]
    /\ mute_calls[Len(mute_calls)] = [muted |-> FALSE, sig |-> Len(consumed)]
    /\ timer_running
    /\ media_queue = <<>>

\* the media thread has left its loop on a failed refresh and the signal it
\* put last has been consumed
SentinelConsumed ==
    /\ media_pc = "exited"
    /\ last_refresh.result = "failed"
    /\ media_queue = <<>>
    /\ current_title = TokenErrorSignal.title

\* C32: once the token error signal has been consumed and the media thread
\* has exited, the machine is in the advertisement state and stays there:
\* update_ui issues no further mute or unmute call, and the audio is muted
\* unless force_unmute was pressed, the only step that unmutes it.
C32_SentinelKeepsAdvertisement ==
    [][SentinelConsumed =>
        /\ is_ad_playing /\ ad_indicator_window
        /\ ~timer_running /\ ~timer_label_window
        /\ audio_muted \/ (override # NoneOpt /\ ~override[1].muted)
        /\ SentinelConsumed'
        /\ is_ad_playing' /\ ad_indicator_window'
        /\ ~timer_running' /\ ~timer_label_window'
        /\ mute_calls' = mute_calls
        /\ (audio_muted /\ ~audio_muted') => force_unmute]_vars

\* the token error signal was consumed and the clock has passed the end
\* time armed for the countdown: the advertisement state and the mute remain
C32_Witness ==
    /\ SentinelConsumed
    /\ timer_end_time # NoneOpt
    /\ now > timer_end_time[1]
    /\ is_ad_playing
    /\ audio_muted
    /\ mute_calls # <<>>

=============================================================================
